---- MODULE Spec2Model ----
(***************************************************************************)
(* A model of the cloud image API (app/api/router.py and the services it   *)
(* calls): the image and transformation records, the blob store, the fast  *)
(* cache, and the request handlers as step-by-step state machines.         *)
(***************************************************************************)
EXTENDS Integers, Sequences, FiniteSets, TLC

(***************************************************************************)
(* Bounds of the model.                                                    *)
(***************************************************************************)
\* number of requests that arrive in a run, one after the other
MaxRequests == 4
\* number of requests that arrive in a run in which requests overlap
MaxOverlapping == 3
\* length of the operation lists the cache key is derived for
MaxOps == 2
\* the largest side of an image, in pixels, of a call of crop or resize
MaxSide == 3
\* number of times the clock of the cache server is advanced
MaxAdvances == 3

Users == {"u1", "u2"}
Procs == {"p1", "p2"}
\* the ids a request may name
ImageIds == {1, 2}
TransformIds == {1, 2}

(***************************************************************************)
(* JSON values.  A JSON object is the sequence of its entries in insertion *)
(* order (a Python dict).  An operation is an object whose values are      *)
(* strings or one level of nested object ("params"); an inner object maps  *)
(* keys to atoms.                                                          *)
(***************************************************************************)
Atom(k, a) == [k |-> k, isObj |-> FALSE, atom |-> a, obj |-> <<>>]
Obj(k, o) == [k |-> k, isObj |-> TRUE, atom |-> "", obj |-> o]
KV(k, v) == [k |-> k, v |-> v]

\* Python's str ordering, on the keys that occur in the model.
SortedKeys == <<"angle", "expand", "filter_type", "params", "type">>
KeyRank(k) == CHOOSE i \in 1..Len(SortedKeys) : SortedKeys[i] = k
KeyLess(a, b) == KeyRank(a) < KeyRank(b)

RECURSIVE InsertByKey(_, _)
InsertByKey(e, s) ==
    IF s = <<>> THEN <<e>>
    ELSE IF KeyLess(e.k, Head(s).k) THEN <<e>> \o s
    ELSE <<Head(s)>> \o InsertByKey(e, Tail(s))

RECURSIVE SortByKey(_)
SortByKey(s) == IF s = <<>> THEN <<>> ELSE InsertByKey(Head(s), SortByKey(Tail(s)))

\* The entries in the order json.dumps writes them.
KeyOrder(s, sort_keys) == IF sort_keys THEN SortByKey(s) ELSE s

RECURSIVE DumpInnerEntries(_)
DumpInnerEntries(s) ==
    IF s = <<>> THEN <<>>
    ELSE <<Head(s).k, ":", Head(s).v>>
         \o (IF Len(s) > 1 THEN <<",">> ELSE <<>>)
         \o DumpInnerEntries(Tail(s))

DumpInner(o, sort_keys) == <<"{">> \o DumpInnerEntries(KeyOrder(o, sort_keys)) \o <<"}">>

RECURSIVE DumpEntries(_, _)
DumpEntries(s, sort_keys) ==
    IF s = <<>> THEN <<>>
    ELSE <<Head(s).k, ":">>
         \o (IF Head(s).isObj THEN DumpInner(Head(s).obj, sort_keys)
             ELSE <<Head(s).atom>>)
         \o (IF Len(s) > 1 THEN <<",">> ELSE <<>>)
         \o DumpEntries(Tail(s), sort_keys)

DumpDict(d, sort_keys) == <<"{">> \o DumpEntries(KeyOrder(d, sort_keys), sort_keys) \o <<"}">>

RECURSIVE DumpItems(_, _)
DumpItems(l, sort_keys) ==
    IF l = <<>> THEN <<>>
    ELSE DumpDict(Head(l), sort_keys)
         \o (IF Len(l) > 1 THEN <<",">> ELSE <<>>)
         \o DumpItems(Tail(l), sort_keys)

\* json.dumps(operations, sort_keys=...): the text, as its sequence of tokens.
JsonDumps(l, sort_keys) == <<"[">> \o DumpItems(l, sort_keys) \o <<"]">>

(***************************************************************************)
(* Python dict access.  A list entry that is not a dict (None, a string, a *)
(* number) is the one-entry sequence whose key is empty.                   *)
(***************************************************************************)
NotARecord == <<Atom("", "null")>>
\* isinstance(op, dict)
IsRecord(op) == \A n \in 1..Len(op) : op[n].k # ""
HasKey(d, k) == \E n \in 1..Len(d) : d[n].k = k
Entry(d, k) == d[CHOOSE n \in 1..Len(d) : d[n].k = k]
\* op.get("type"): the string, "" for a missing or falsy tag (None is falsy as ""
\* is), and a tag that is no operation for one that is a non-empty object
GetType(op) ==
    IF ~HasKey(op, "type") THEN ""
    ELSE IF ~Entry(op, "type").isObj THEN Entry(op, "type").atom
    ELSE IF Entry(op, "type").obj = <<>> THEN "" ELSE "<object>"
\* whether op.get("params", {}) is a dict: with a "params" that is null, a string
\* or a number, the .get that follows raises AttributeError
ParamsIsRecord(op) == HasKey(op, "params") => Entry(op, "params").isObj
\* op.get("params", {})
GetParams(op) ==
    IF HasKey(op, "params") /\ Entry(op, "params").isObj THEN Entry(op, "params").obj ELSE <<>>
\* params.get(name): the value, or "" for None
GetParam(params, name) == IF HasKey(params, name) THEN Entry(params, name).v ELSE ""

\* int(value), on the numbers that occur in the model
IntOf(v) ==
    CASE v = "-1" -> 0 - 1
      [] v = "0" -> 0
      [] v = "1" -> 1
      [] v = "2" -> 2
      [] v = "3" -> 3
      [] v = "4" -> 4
      [] v = "5" -> 5
      [] v = "90" -> 90
\* int(value) if value is not None else None, where None reads as 0: resize
\* tests its width and height for truth only
IntOrNone(v) == IF v = "" THEN 0 ELSE IntOf(v)

(***************************************************************************)
(* ImageProcessor.  Image bytes are modelled by what the operations read   *)
(* of them: whether Pillow can decode them, the size of the image, and the *)
(* edits applied to the original.  pil is the exception the installed      *)
(* Pillow raises for an image without pixels (ValueError from resize and   *)
(* from the JPEG writer, SystemError from other writers).                  *)
(***************************************************************************)
ImageBytes(decodable, width, height) ==
    [decodable |-> decodable, width |-> width, height |-> height, edits |-> <<>>]
\* an image of 4 x 2 pixels
OriginalBytes == ImageBytes(TRUE, 4, 2)
\* bytes whose header Image.open accepts and whose pixel data cannot be decoded
TruncatedBytes == ImageBytes(FALSE, 4, 2)
PilErrors == {"ValueError", "SystemError"}

ValueError == [ok |-> FALSE, data |-> <<>>, error |-> "ValueError"]
Raised(error) == [ok |-> FALSE, data |-> <<>>, error |-> error]
Bytes(d) == [ok |-> TRUE, data |-> d, error |-> ""]
\* img.save of the edited image
Edited(data, edit, width, height) ==
    Bytes([data EXCEPT !.edits = Append(@, edit), !.width = width, !.height = height])

Max(a, b) == IF a >= b THEN a ELSE b

\* Image.thumbnail((w, h)) on a W x H image: the size that fits the box, keeps
\* the aspect ratio and is never larger than the image
ThumbnailSize(W, H, w, h) ==
    IF w >= W /\ h >= H THEN <<W, H>>
    ELSE IF w * H >= h * W THEN <<Max(1, (h * W) \div H), h>>
    ELSE <<w, Max(1, (w * H) \div W)>>

\* lines 57-72 of resize: the size the image is resized to
ResizeSize(W, H, width, height, maintain_aspect) ==
    IF maintain_aspect
    THEN IF width # 0 /\ height # 0 THEN ThumbnailSize(W, H, width, height)
         ELSE IF width # 0 THEN <<width, (H * width) \div W>>
         ELSE <<(W * height) \div H, height>>
    ELSE <<IF width # 0 THEN width ELSE W, IF height # 0 THEN height ELSE H>>

\* ImageProcessor.resize
Resize(data, width, height, maintain_aspect, pil) ==
    IF width = 0 /\ height = 0 THEN ValueError
    ELSE IF ~data.decodable THEN Raised("OSError")
    ELSE LET size == ResizeSize(data.width, data.height, width, height, maintain_aspect)
         IN  IF size[1] <= 0 \/ size[2] <= 0 THEN Raised(pil)
             ELSE Edited(data, "resize", size[1], size[2])

\* ImageProcessor.crop
Crop(data, x, y, width, height, pil) ==
    IF ~data.decodable THEN Raised("OSError")
    ELSE LET right == x + width
             bottom == y + height
         IN  IF x < 0 \/ y < 0 \/ right > data.width \/ bottom > data.height
             THEN ValueError
             ELSE IF width <= 0 \/ height <= 0 THEN Raised(pil)
             ELSE Edited(data, "crop", width, height)

\* ImageProcessor.rotate: a rotation by 90 degrees that expands swaps the sides
Rotate(data, angle, expand) ==
    IF ~data.decodable THEN Raised("OSError")
    ELSE IF expand /\ angle = 90 THEN Edited(data, "rotate", data.height, data.width)
    ELSE Edited(data, "rotate", data.width, data.height)

\* ImageProcessor.convert_format
ConvertFormat(data, target_format) ==
    IF target_format \notin {"jpeg", "jpg", "png", "webp", "gif"} THEN ValueError
    ELSE IF ~data.decodable THEN Raised("OSError")
    ELSE Edited(data, "format", data.width, data.height)

\* ImageProcessor.apply_filter
ApplyFilter(data, filter_type) ==
    IF ~data.decodable THEN Raised("OSError")
    ELSE IF filter_type \notin {"grayscale", "sepia", "blur", "sharpen"} THEN ValueError
    ELSE Edited(data, "filter", data.width, data.height)

\* a faulty variant: only the empty entry is skipped
SkippedOnlyEmpty(op) == op = <<>>

\* whether the loop skips the entry: lines 277-286
Skipped(op) == op = <<>> \/ ~IsRecord(op) \/ GetType(op) = ""

\* one iteration of the loop over the operations: lines 275-356
ApplyOperation(current_data, op, pil) ==
    LET op_type == GetType(op)
        params == GetParams(op)
    IN  IF Skipped(op) THEN Bytes(current_data)
        ELSE IF op_type \notin {"resize", "crop", "rotate", "format", "filter"}
        THEN ValueError
        ELSE IF ~ParamsIsRecord(op) THEN Raised("AttributeError")
        ELSE IF op_type = "resize" THEN
            IF GetParam(params, "width") # "" \/ GetParam(params, "height") # ""
            THEN Resize(current_data, IntOrNone(GetParam(params, "width")),
                        IntOrNone(GetParam(params, "height")),
                        GetParam(params, "maintain_ratio") # "false", pil)
            ELSE Bytes(current_data)
        ELSE IF op_type = "crop" THEN
            IF GetParam(params, "width") # "" /\ GetParam(params, "height") # ""
            THEN Crop(current_data, IntOrNone(GetParam(params, "x")),
                      IntOrNone(GetParam(params, "y")), IntOf(GetParam(params, "width")),
                      IntOf(GetParam(params, "height")), pil)
            ELSE Bytes(current_data)
        ELSE IF op_type = "rotate" THEN
            IF GetParam(params, "angle") # ""
            THEN Rotate(current_data, IntOf(GetParam(params, "angle")),
                        GetParam(params, "expand") = "true")
            ELSE Bytes(current_data)
        ELSE IF op_type = "format" THEN
            IF GetParam(params, "output_format") # ""
            THEN ConvertFormat(current_data, GetParam(params, "output_format"))
            ELSE Bytes(current_data)
        ELSE IF GetParam(params, "filter_type") # ""
            THEN ApplyFilter(current_data, GetParam(params, "filter_type"))
            ELSE Bytes(current_data)

\* a faulty variant: the operations are applied from the last to the first
RECURSIVE process_image_backwards(_, _, _)
process_image_backwards(image_data, operations, pil) ==
    IF operations = <<>> THEN Bytes(image_data)
    ELSE LET r == process_image_backwards(image_data, Tail(operations), pil)
         IN  IF r.ok THEN ApplyOperation(r.data, Head(operations), pil) ELSE r

\* a faulty variant: the bytes are decoded before the loop starts
RECURSIVE process_image_decodes_first(_, _, _)
process_image_decodes_first(image_data, operations, pil) ==
    IF ~image_data.decodable THEN Raised("OSError")
    ELSE IF operations = <<>> THEN Bytes(image_data)
    ELSE LET r == ApplyOperation(image_data, Head(operations), pil)
         IN  IF r.ok THEN process_image_decodes_first(r.data, Tail(operations), pil)
             ELSE r

RECURSIVE process_image(_, _, _)
process_image(image_data, operations, pil) ==
    IF operations = <<>> THEN Bytes(image_data)
    ELSE LET r == ApplyOperation(image_data, Head(operations), pil)
         IN  IF r.ok THEN process_image(r.data, Tail(operations), pil) ELSE r

\* a faulty variant: every exception of the pipeline is a server error
PipelineStatusServerError(r) == 500

\* lines 267-283 of transform_image: the status of a pipeline that raised
PipelineStatus(r) == IF r.error = "ValueError" THEN 400 ELSE 500

(***************************************************************************)
(* The operation lists the clients of the model send.                      *)
(***************************************************************************)
\* {"type": "rotate", "params": {"angle": 90}}, as the tests write it
RotateOp == <<Atom("type", "rotate"), Obj("params", <<KV("angle", "90")>>)>>
\* the same object with its keys listed in sorted order
RotateOpKeysSorted == <<Obj("params", <<KV("angle", "90")>>), Atom("type", "rotate")>>
\* {"type": "invalid_operation", "params": {}}
InvalidOp == <<Atom("type", "invalid_operation"), Obj("params", <<>>)>>
RequestOps == {<<RotateOp>>, <<RotateOpKeysSorted>>, <<InvalidOp>>}

(***************************************************************************)
(* State.                                                                  *)
(***************************************************************************)
VARIABLES
    images,           \* table images: id -> [user_id, original_key]
    transformations,  \* table transformations: id -> record
    blobs,            \* the object store: key -> bytes
    nextKey,          \* uuid4(): the next fresh key
    cache,            \* the fast cache: key -> value
    redis_enabled,    \* RedisCache.redis_enabled
    pc,               \* per request slot: where its handler stands
    req,              \* per request slot: the request being handled
    loc,              \* per request slot: the handler's local variables
    trace,            \* per request slot: what the handler has done so far
    finished,         \* the request answered by the last step, with its response
    last,             \* the last transform answered 200 since the last delete request
    deleted,          \* the ids delete_image has deleted and no later row was given
    served,           \* the number of requests that have arrived
    probe             \* the inputs and results of the pure functions

vars == <<images, transformations, blobs, nextKey,
          cache, redis_enabled, pc, req, loc, trace, finished, last, deleted, served, probe>>

Empty == [x \in {} |-> x]
Put(f, k, v) == [x \in DOMAIN f \cup {k} |-> IF x = k THEN v ELSE f[x]]
Drop(f, S) == [x \in DOMAIN f \ S |-> f[x]]

NoResult == [url |-> <<>>, transformation_id |-> 0]
NoReq == [kind |-> "none", user |-> "", id |-> 0, operations |-> <<>>, prior |-> 0,
          gone |-> FALSE]
NoLoc == [original_key |-> 0, cache_key |-> <<>>, operations_json |-> <<>>,
          image_data |-> <<>>, transformed_data |-> <<>>, key |-> 0, url |-> <<>>,
          result |-> NoResult, transformations |-> <<>>, todo |-> <<>>]
NoFinished == [req |-> NoReq, status |-> 0, body |-> NoResult, trace |-> <<>>,
               loc |-> NoLoc]
NoneDeleted == [images |-> {}, transformations |-> {}]
NoLast == [image |-> 0, operations |-> <<>>, transformation_id |-> 0]
NoProbe == [stage |-> "none", a |-> <<>>, b |-> <<>>, key_a |-> <<>>, key_b |-> <<>>]
None == NoResult

\* R2Storage.upload_file's public URL of a key
PublicUrl(key) == <<"https://public", key>>
\* the transform response and cache value {url, transformation_id}
Result(url, id) == [url |-> url, transformation_id |-> id]
\* a faulty variant: the keys of the objects are written in insertion order
CacheKeyInsertionOrder(image_id, operations) ==
    <<"transform:", image_id, ":">> \o JsonDumps(operations, FALSE)

\* a faulty variant: the key is derived from the image alone
CacheKeyImageOnly(image_id, operations) == <<"transform:", image_id, ":">>

\* f"transform:{image_id}:{operations_key}"
CacheKey(image_id, operations) == <<"transform:", image_id, ":">> \o JsonDumps(operations, TRUE)
\* the string the durable lookup compares the stored parameters with
OperationsJson(operations) == JsonDumps(operations, TRUE)

\* RedisCache.get; raises says that the backend client or json.loads raises.  The
\* value read is json.loads of the json.dumps that set wrote, which gives back
\* the url string and the integer id as they were
CacheGet(key, raises) ==
    IF ~redis_enabled THEN None
    ELSE IF raises THEN None
    ELSE IF key \in DOMAIN cache THEN cache[key] ELSE None

\* a faulty variant: a set whose backend call raises has written the entry
CacheSetWritesBeforeRaise(key, value, raises) ==
    IF ~redis_enabled THEN [result |-> FALSE, cache |-> cache]
    ELSE [result |-> ~raises, cache |-> Put(cache, key, value)]

\* RedisCache.set: what the call returns and the cache after it; raises says that
\* json.dumps or the backend client raises
CacheSet(key, value, raises) ==
    IF ~redis_enabled THEN [result |-> FALSE, cache |-> cache]
    ELSE IF raises THEN [result |-> FALSE, cache |-> cache]
    ELSE [result |-> TRUE, cache |-> Put(cache, key, value)]

\* RedisCache.delete: what the call returns and the cache after it
CacheDelete(key, raises) ==
    IF ~redis_enabled THEN [result |-> FALSE, cache |-> cache]
    ELSE IF raises THEN [result |-> FALSE, cache |-> cache]
    ELSE [result |-> TRUE, cache |-> Drop(cache, {key})]

\* RedisCache.exists
CacheExists(key, raises) ==
    IF ~redis_enabled THEN FALSE
    ELSE IF raises THEN FALSE
    ELSE key \in DOMAIN cache

\* db.query(Image).filter(Image.id == image_id, Image.user_id == current_user.id).first()
FindImage(image_id, user) ==
    image_id \in DOMAIN images /\ images[image_id].user_id = user

\* Transformation.set_parameters
SetParameters(value) == JsonDumps(value, FALSE)

\* the rows matching Transformation.image_id == image_id, _parameters == operations_json
ExistingTransforms(image_id, operations_json) ==
    {t \in DOMAIN transformations :
        /\ transformations[t].image_id = image_id
        /\ transformations[t].parameters = operations_json}

\* the rows of an image, in id order
RECURSIVE SeqOfSet(_)
SeqOfSet(S) ==
    IF S = {} THEN <<>>
    ELSE LET m == CHOOSE x \in S : \A y \in S : x <= y
         IN  <<m>> \o SeqOfSet(S \ {m})
TransformsOf(image_id) ==
    SeqOfSet({t \in DOMAIN transformations : transformations[t].image_id = image_id})

Init ==
    /\ images = Empty
    /\ transformations = Empty
    /\ blobs = Empty
    /\ nextKey = 1
    /\ cache = Empty
    /\ redis_enabled \in BOOLEAN
    /\ pc = [p \in Procs |-> "idle"]
    /\ req = [p \in Procs |-> NoReq]
    /\ loc = [p \in Procs |-> NoLoc]
    /\ trace = [p \in Procs |-> <<>>]
    /\ finished = NoFinished
    /\ last = NoLast
    /\ deleted = NoneDeleted
    /\ served = 0
    /\ probe = NoProbe

\* the request that arrives: prior is the transformation_id the last answer to the
\* same transform request carried, 0 when there is none; gone says that the request
\* names an image, or a transformation of an image, that delete_image has deleted
NewReq(kind, user, id, operations) ==
    [kind |-> kind, user |-> user, id |-> id, operations |-> operations,
     prior |-> IF kind = "transform" /\ last.image = id /\ last.operations = operations
               THEN last.transformation_id ELSE 0,
     gone |-> IF kind = "delete_transformation" THEN id \in deleted.transformations
              ELSE kind \in {"get", "transform", "delete_image"} /\ id \in deleted.images]

\* the handler of slot p goes on with the request r
Continue(p, r, label, event) ==
    /\ pc' = [pc EXCEPT ![p] = label]
    /\ req' = [req EXCEPT ![p] = r]
    /\ trace' = [trace EXCEPT ![p] = Append(trace[p], event)]
    /\ finished' = NoFinished

\* the handler of slot p answers the request r and ends
Finish(p, r, event, status, body) ==
    /\ pc' = [pc EXCEPT ![p] = "idle"]
    /\ req' = [req EXCEPT ![p] = NoReq]
    /\ loc' = [loc EXCEPT ![p] = NoLoc]
    /\ trace' = [trace EXCEPT ![p] = <<>>]
    /\ finished' = [req |-> r, status |-> status, body |-> body,
                    trace |-> Append(trace[p], event), loc |-> loc[p]]

Local(p, field, value) == loc' = [loc EXCEPT ![p] = [loc[p] EXCEPT ![field] = value]]

db == <<images, transformations>>
store == <<blobs, nextKey>>

\* the id an INSERT gives a row of an INTEGER PRIMARY KEY table (SQLite, the
\* database of the repository's configurations): one more than the largest id
NewId(table) ==
    IF DOMAIN table = {} THEN 1
    ELSE (CHOOSE m \in DOMAIN table : \A x \in DOMAIN table : x <= m) + 1


(***************************************************************************)
(* POST /images/upload                                                     *)
(***************************************************************************)
\* the uploads: an image, an image file cut short after its header (get_image_info
\* opens the file and reads its size, format and mode from the header, and does
\* not decode the pixels), the files the validations reject, and an image whose
\* upload to the object store fails (R2Storage.upload_file raises)
Files == {"image", "truncated", "too_large", "bad_extension", "not_an_image",
          "upload_fails"}

upload_image(p, user, file) ==
    /\ pc[p] = "idle"
    /\ LET r == NewReq("upload", user, 0, <<>>)
       IN  IF file = "too_large"
           THEN Finish(p, r, "too_large", 413, NoResult) /\ UNCHANGED <<db, store>>
           ELSE IF file = "bad_extension"
           THEN Finish(p, r, "bad_extension", 415, NoResult) /\ UNCHANGED <<db, store>>
           ELSE IF file = "not_an_image"
           THEN Finish(p, r, "not_an_image", 400, NoResult) /\ UNCHANGED <<db, store>>
           ELSE IF file = "upload_fails"
           THEN Finish(p, r, "upload", 500, NoResult) /\ UNCHANGED <<db, store>>
           ELSE /\ blobs' = Put(blobs, nextKey,
                                IF file = "truncated" THEN TruncatedBytes ELSE OriginalBytes)
                /\ nextKey' = nextKey + 1
                /\ images' = Put(images, NewId(images),
                                 [user_id |-> user, original_key |-> nextKey])
                /\ Finish(p, [r EXCEPT !.id = NewId(images)], "created", 201, NoResult)
                /\ UNCHANGED transformations
    /\ deleted' = IF file \in {"image", "truncated"}
                  THEN [deleted EXCEPT !.images = @ \ {NewId(images)}] ELSE deleted
    /\ UNCHANGED <<cache, redis_enabled, last, probe>>

(***************************************************************************)
(* GET /images/{image_id}                                                  *)
(***************************************************************************)
get_image(p, user, image_id) ==
    /\ pc[p] = "idle"
    /\ Finish(p, NewReq("get", user, image_id, <<>>), "find_image",
              IF FindImage(image_id, user) THEN 200 ELSE 404, NoResult)
    /\ UNCHANGED <<db, store, cache, redis_enabled, last, deleted, probe>>

(***************************************************************************)
(* GET /images and GET /transformations                                    *)
(***************************************************************************)
\* the ids of S from the largest to the smallest: order_by(created_at.desc()),
\* as a row created later has the larger id
RECURSIVE Descending(_)
Descending(S) ==
    IF S = {} THEN <<>>
    ELSE LET m == CHOOSE x \in S : \A y \in S : y <= x
         IN  <<m>> \o Descending(S \ {m})

\* the body of a list response
Listing(items, total) == [items |-> items, total |-> total]

\* the page and limit parameters of the requests
Windows == {[page |-> 1, limit |-> 10], [page |-> 2, limit |-> 1]}

\* lines 99-140
list_images(p, user, page, limit) ==
    /\ pc[p] = "idle"
    /\ LET offset == (page - 1) * limit
           rows == Descending({i \in DOMAIN images : images[i].user_id = user})
           upto == IF offset + limit < Len(rows) THEN offset + limit ELSE Len(rows)
       IN  Finish(p, NewReq("list_images", user, 0, <<>>), "list", 200,
                  Listing(SubSeq(rows, offset + 1, upto), Len(rows)))
    /\ UNCHANGED <<db, store, cache, redis_enabled, last, deleted, probe>>

\* a faulty variant: the transformations are not joined with the user's images
list_transformations_of_all_users(p, user, image_id) ==
    /\ pc[p] = "idle"
    /\ LET rows == Descending({t \in DOMAIN transformations :
                                   image_id # 0 => transformations[t].image_id = image_id})
       IN  Finish(p, NewReq("list_transformations", user, image_id, <<>>), "list", 200,
                  Listing(rows, Len(rows)))
    /\ UNCHANGED <<db, store, cache, redis_enabled, last, deleted, probe>>

\* lines 335-351; image_id is 0 when the request gives none
list_transformations(p, user, image_id) ==
    /\ pc[p] = "idle"
    /\ LET rows == Descending({t \in DOMAIN transformations :
                                   /\ FindImage(transformations[t].image_id, user)
                                   /\ image_id # 0 => transformations[t].image_id = image_id})
       IN  Finish(p, NewReq("list_transformations", user, image_id, <<>>), "list", 200,
                  Listing(rows, Len(rows)))
    /\ UNCHANGED <<db, store, cache, redis_enabled, last, deleted, probe>>

(***************************************************************************)
(* POST /images/{image_id}/transform                                       *)
(***************************************************************************)
\* lines 193-206: the image is looked up and the keys are derived
transform_image(p, user, image_id, operations) ==
    /\ pc[p] = "idle"
    /\ LET r == NewReq("transform", user, image_id, operations)
       IN  IF ~FindImage(image_id, user)
           THEN Finish(p, r, "find_image", 404, NoResult)
           ELSE /\ Continue(p, r, "durable_lookup", "find_image")
                /\ loc' = [loc EXCEPT ![p] =
                            [NoLoc EXCEPT !.original_key = images[image_id].original_key,
                                          !.cache_key = CacheKey(image_id, operations),
                                          !.operations_json = OperationsJson(operations)]]
    /\ UNCHANGED <<db, store, cache, redis_enabled, last, deleted, probe>>

\* what a 200 answer of a transform leaves for the next request to compare with
Answered(p, result) ==
    last' = [image |-> req[p].id, operations |-> req[p].operations,
             transformation_id |-> result.transformation_id]

\* a faulty variant: a durable miss goes straight to the pipeline
transform_durable_lookup_skips_cache(p) ==
    /\ pc[p] = "durable_lookup"
    /\ LET existing == ExistingTransforms(req[p].id, loc[p].operations_json)
       IN  IF existing # {}
           THEN \E t \in existing :
                  LET result == Result(transformations[t].cached_url, t)
                  IN  /\ Finish(p, req[p], "durable_hit", 200, result)
                      /\ Answered(p, result)
           ELSE /\ Continue(p, req[p], "download", "durable_miss")
                /\ UNCHANGED <<loc, last>>
    /\ UNCHANGED <<db, store, cache, redis_enabled, deleted, probe>>

\* lines 208-219: the durable-record lookup; .first() returns any matching row
transform_durable_lookup(p) ==
    /\ pc[p] = "durable_lookup"
    /\ LET existing == ExistingTransforms(req[p].id, loc[p].operations_json)
       IN  IF existing # {}
           THEN \E t \in existing :
                  LET result == Result(transformations[t].cached_url, t)
                  IN  /\ Finish(p, req[p], "durable_hit", 200, result)
                      /\ Answered(p, result)
           ELSE /\ Continue(p, req[p], "cache_lookup", "durable_miss")
                /\ UNCHANGED <<loc, last>>
    /\ UNCHANGED <<db, store, cache, redis_enabled, deleted, probe>>

\* lines 221-224: the fast-cache lookup
transform_cache_lookup(p) ==
    /\ pc[p] = "cache_lookup"
    /\ \E raises \in BOOLEAN :
         LET cached_result == CacheGet(loc[p].cache_key, raises)
         IN  IF cached_result # None
             THEN /\ Finish(p, req[p], "cache_hit", 200, cached_result)
                  /\ Answered(p, cached_result)
             ELSE /\ Continue(p, req[p], "download", "cache_miss")
                  /\ UNCHANGED <<loc, last>>
    /\ UNCHANGED <<db, store, cache, redis_enabled, deleted, probe>>

\* lines 226-265: the original is read from the object store; the read fails
\* when the blob is missing, and may fail when it is there
transform_download(p) ==
    /\ pc[p] = "download"
    /\ LET key == loc[p].original_key
       IN  \E ok \in BOOLEAN :
             IF ok /\ key \in DOMAIN blobs
             THEN /\ Continue(p, req[p], "process", "download")
                  /\ Local(p, "image_data", blobs[key])
             ELSE Finish(p, req[p], "download", 500, NoResult)
    /\ UNCHANGED <<db, store, cache, redis_enabled, last, deleted, probe>>

\* lines 267-283: the pipeline
transform_process(p) ==
    /\ pc[p] = "process"
    /\ \E pil \in PilErrors :
         LET r == process_image(loc[p].image_data, req[p].operations, pil)
         IN  IF r.ok
             THEN /\ Continue(p, req[p], "upload", "process")
                  /\ Local(p, "transformed_data", r.data)
             ELSE Finish(p, req[p], "process", PipelineStatus(r), NoResult)
    /\ UNCHANGED <<db, store, cache, redis_enabled, last, deleted, probe>>

\* lines 285-308: the result is uploaded under a fresh key, or
\* R2Storage.upload_file raises and the request ends with a server error
transform_upload(p) ==
    /\ pc[p] = "upload"
    /\ \/ /\ Continue(p, req[p], "commit", "upload")
          /\ blobs' = Put(blobs, nextKey, loc[p].transformed_data)
          /\ nextKey' = nextKey + 1
          /\ loc' = [loc EXCEPT ![p] =
                      [loc[p] EXCEPT !.key = nextKey, !.url = PublicUrl(nextKey)]]
       \/ /\ Finish(p, req[p], "upload", 500, NoResult)
          /\ UNCHANGED store
    /\ UNCHANGED <<db, cache, redis_enabled, last, deleted, probe>>

\* the row db.add(db_transform) inserts
NewTransformation(image_id, operations, key, url) ==
    [image_id |-> image_id,
     parameters |-> SetParameters(operations),
     operations |-> operations,
     cached_key |-> key,
     cached_url |-> url]

\* a faulty variant: no second record with the same image_id and parameters
transform_commit_unique(p) ==
    /\ pc[p] = "commit"
    /\ Continue(p, req[p], "respond", "commit")
    /\ LET same == ExistingTransforms(req[p].id, SetParameters(req[p].operations))
       IN  IF same # {}
           THEN /\ UNCHANGED <<transformations, deleted>>
                /\ \E t \in same : Local(p, "result", Result(transformations[t].cached_url, t))
           ELSE /\ transformations' = Put(transformations, NewId(transformations),
                       NewTransformation(req[p].id, req[p].operations, loc[p].key, loc[p].url))
                /\ Local(p, "result", Result(loc[p].url, NewId(transformations)))
                /\ deleted' = [deleted EXCEPT !.transformations = @ \ {NewId(transformations)}]
    /\ UNCHANGED <<images, store, cache, redis_enabled, last, probe>>

\* lines 310-328: the record is inserted and committed and the result is built,
\* or db.commit() raises and the request ends with a server error
transform_commit(p) ==
    /\ pc[p] = "commit"
    /\ \/ /\ Continue(p, req[p], "respond", "commit")
          /\ transformations' = Put(transformations, NewId(transformations),
                  NewTransformation(req[p].id, req[p].operations, loc[p].key, loc[p].url))
          /\ Local(p, "result", Result(loc[p].url, NewId(transformations)))
          /\ deleted' = [deleted EXCEPT !.transformations = @ \ {NewId(transformations)}]
       \/ /\ Finish(p, req[p], "commit", 500, NoResult)
          /\ UNCHANGED <<transformations, deleted>>
    /\ UNCHANGED <<images, store, cache, redis_enabled, last, probe>>

\* a faulty variant: the cache is written before the response is returned
transform_respond_after_cache_set(p) ==
    /\ pc[p] = "respond"
    /\ pc' = [pc EXCEPT ![p] = "background"]
    /\ trace' = [trace EXCEPT ![p] = Append(trace[p], "respond")]
    /\ finished' = [req |-> req[p], status |-> 200, body |-> loc[p].result,
                    trace |-> Append(trace[p], "respond"), loc |-> loc[p]]
    /\ Answered(p, loc[p].result)
    /\ cache' = CacheSet(loc[p].cache_key, loc[p].result, FALSE).cache
    /\ UNCHANGED <<db, store, redis_enabled, req, loc, deleted, probe>>

\* lines 330-333: the cache write is handed to the background tasks and the
\* response is returned
transform_respond(p) ==
    /\ pc[p] = "respond"
    /\ pc' = [pc EXCEPT ![p] = "background"]
    /\ trace' = [trace EXCEPT ![p] = Append(trace[p], "respond")]
    /\ finished' = [req |-> req[p], status |-> 200, body |-> loc[p].result,
                    trace |-> Append(trace[p], "respond"), loc |-> loc[p]]
    /\ Answered(p, loc[p].result)
    /\ UNCHANGED <<db, store, cache, redis_enabled, req, loc, deleted, probe>>

\* the background task cache.set(cache_key, result), run after the response
background_cache_set(p) ==
    /\ pc[p] = "background"
    /\ \E raises \in BOOLEAN :
         LET set == CacheSet(loc[p].cache_key, loc[p].result, raises)
         IN  /\ cache' = set.cache
             /\ Finish(p, req[p], IF set.result THEN "cache_set" ELSE "cache_set_failed",
                       0, loc[p].result)
    /\ UNCHANGED <<db, store, redis_enabled, last, deleted, probe>>

\* setex: an entry expires REDIS_CACHE_EXPIRY seconds after it was written
cache_expire(key) ==
    /\ key \in DOMAIN cache
    /\ cache' = Drop(cache, {key})
    /\ finished' = NoFinished
    /\ UNCHANGED <<db, store, redis_enabled, pc, req, loc, trace, last, served, deleted, probe>>

(***************************************************************************)
(* R2Storage.delete_file: the backend call succeeds (True) or raises, and  *)
(* the method then logs the error and returns False; it never raises.      *)
(***************************************************************************)
DeleteFile(key, ok) == IF ok THEN Drop(blobs, {key}) ELSE blobs

(***************************************************************************)
(* DELETE /images/{image_id}                                               *)
(***************************************************************************)
\* lines 363-372
delete_image(p, user, image_id) ==
    /\ pc[p] = "idle"
    /\ last' = NoLast
    /\ LET r == NewReq("delete_image", user, image_id, <<>>)
       IN  IF ~FindImage(image_id, user)
           THEN Finish(p, r, "find_image", 404, NoResult)
           ELSE /\ Continue(p, r, "enumerate", "find_image")
                /\ loc' = [loc EXCEPT ![p] =
                            [NoLoc EXCEPT !.original_key = images[image_id].original_key]]
    /\ UNCHANGED <<db, store, cache, redis_enabled, deleted, probe>>

\* lines 374-377: the image's transformations are loaded
delete_image_enumerate(p) ==
    /\ pc[p] = "enumerate"
    /\ Continue(p, req[p], "original_blob", "enumerate")
    /\ LET rows == TransformsOf(req[p].id)
           found == [n \in 1..Len(rows) |->
                        [id |-> rows[n], cached_key |-> transformations[rows[n]].cached_key]]
       IN  loc' = [loc EXCEPT ![p] = [loc[p] EXCEPT !.transformations = found, !.todo = found]]
    /\ UNCHANGED <<db, store, cache, redis_enabled, last, deleted, probe>>

\* lines 381-383: the original's blob
delete_image_original_blob(p) ==
    /\ pc[p] = "original_blob"
    /\ \E ok \in BOOLEAN :
         /\ blobs' = DeleteFile(loc[p].original_key, ok)
         /\ Continue(p, req[p], "transformation_blobs",
                     IF ok THEN "original_blob_deleted" ELSE "original_blob_failed")
    /\ UNCHANGED <<db, nextKey, cache, redis_enabled, loc, last, deleted, probe>>

\* a faulty variant: a blob deletion that fails ends the loop
delete_image_transformation_blob_until_failure(p) ==
    /\ pc[p] = "transformation_blobs"
    /\ loc[p].todo # <<>>
    /\ \E ok \in BOOLEAN :
         /\ blobs' = DeleteFile(Head(loc[p].todo).cached_key, ok)
         /\ Continue(p, req[p], "transformation_blobs",
                     IF ok THEN "transformation_blob_deleted"
                     ELSE "transformation_blob_failed")
         /\ Local(p, "todo", IF ok THEN Tail(loc[p].todo) ELSE <<>>)
    /\ UNCHANGED <<db, nextKey, cache, redis_enabled, last, deleted, probe>>

\* lines 385-388: one iteration of the loop over the transformations' blobs
delete_image_transformation_blob(p) ==
    /\ pc[p] = "transformation_blobs"
    /\ loc[p].todo # <<>>
    /\ \E ok \in BOOLEAN :
         /\ blobs' = DeleteFile(Head(loc[p].todo).cached_key, ok)
         /\ Continue(p, req[p], "transformation_blobs",
                     IF ok THEN "transformation_blob_deleted"
                     ELSE "transformation_blob_failed")
    /\ Local(p, "todo", Tail(loc[p].todo))
    /\ UNCHANGED <<db, nextKey, cache, redis_enabled, last, deleted, probe>>

\* a faulty variant: only the image record is deleted
delete_image_commit_image_only(p) ==
    /\ pc[p] = "transformation_blobs"
    /\ loc[p].todo = <<>>
    /\ images' = Drop(images, {req[p].id})
    /\ Finish(p, req[p], "records_deleted", 204, NoResult)
    /\ deleted' = [images |-> deleted.images \cup {req[p].id},
                   transformations |-> deleted.transformations \cup
                       {loc[p].transformations[n].id : n \in 1..Len(loc[p].transformations)}]
    /\ UNCHANGED <<transformations, store, cache, redis_enabled, last, probe>>

\* lines 393-400: the records are deleted in one transaction
delete_image_commit(p) ==
    /\ pc[p] = "transformation_blobs"
    /\ loc[p].todo = <<>>
    /\ LET ids == {loc[p].transformations[n].id : n \in 1..Len(loc[p].transformations)}
           rest == Drop(transformations, ids)
       IN  \* Image.transformations has no delete cascade: the flush of
           \* db.delete(image) sets image_id of the rows it still finds to NULL
           transformations' = [t \in DOMAIN rest |->
                                 IF rest[t].image_id = req[p].id
                                 THEN [rest[t] EXCEPT !.image_id = 0] ELSE rest[t]]
    /\ images' = Drop(images, {req[p].id})
    /\ Finish(p, req[p], "records_deleted", 204, NoResult)
    /\ deleted' = [images |-> deleted.images \cup {req[p].id},
                   transformations |-> deleted.transformations \cup
                       {loc[p].transformations[n].id : n \in 1..Len(loc[p].transformations)}]
    /\ UNCHANGED <<store, cache, redis_enabled, last, probe>>

(***************************************************************************)
(* DELETE /transformations/{transformation_id}                             *)
(***************************************************************************)
\* lines 411-415: the transformation joined with its image, of this user
FindTransformation(transformation_id, user) ==
    /\ transformation_id \in DOMAIN transformations
    /\ FindImage(transformations[transformation_id].image_id, user)

\* lines 411-421
delete_transformation(p, user, transformation_id) ==
    /\ pc[p] = "idle"
    /\ last' = NoLast
    /\ LET r == NewReq("delete_transformation", user, transformation_id, <<>>)
       IN  IF ~FindTransformation(transformation_id, user)
           THEN Finish(p, r, "find_transformation", 404, NoResult)
           ELSE /\ Continue(p, r, "transformation_blob", "find_transformation")
                /\ loc' = [loc EXCEPT ![p] =
                            [NoLoc EXCEPT !.key = transformations[transformation_id].cached_key]]
    /\ UNCHANGED <<db, store, cache, redis_enabled, deleted, probe>>

\* lines 423-429
delete_transformation_blob(p) ==
    /\ pc[p] = "transformation_blob"
    /\ \E ok \in BOOLEAN :
         /\ blobs' = DeleteFile(loc[p].key, ok)
         /\ Continue(p, req[p], "transformation_record",
                     IF ok THEN "transformation_blob_deleted"
                     ELSE "transformation_blob_failed")
    /\ UNCHANGED <<db, nextKey, cache, redis_enabled, loc, last, deleted, probe>>

\* lines 431-435
delete_transformation_commit(p) ==
    /\ pc[p] = "transformation_record"
    /\ transformations' = Drop(transformations, {req[p].id})
    /\ Finish(p, req[p], "records_deleted", 204, NoResult)
    /\ UNCHANGED <<images, store, cache, redis_enabled, last, deleted, probe>>

(***************************************************************************)
(* The system: requests arrive at the slots and their handlers run.        *)
(***************************************************************************)
\* the slots are interchangeable: a request takes p2 only while p1 is taken
FreeSlot(p) == pc[p] = "idle" /\ (p = "p2" => pc["p1"] # "idle")

\* no handler of another slot is between its request and its response
Quiet(p) == \A q \in Procs \ {p} : pc[q] \in {"idle", "background"}

\* a request arrives at a free slot; overlap says whether it may arrive while the
\* handler of another request is running
Arrive(p, overlap) ==
    /\ FreeSlot(p)
    /\ overlap \/ Quiet(p)
    /\ served < (IF overlap THEN MaxOverlapping ELSE MaxRequests)
    /\ served' = served + 1

\* a handler, or a background task, takes its next step
Step == UNCHANGED served

System(overlap) ==
    \/ \E p \in Procs, u \in Users, f \in Files :
           Arrive(p, overlap) /\ upload_image(p, u, f)
    \/ \E p \in Procs, u \in Users, i \in ImageIds :
           Arrive(p, overlap) /\ get_image(p, u, i)
    \/ \E p \in Procs, u \in Users, w \in Windows :
           Arrive(p, overlap) /\ list_images(p, u, w.page, w.limit)
    \/ \E p \in Procs, u \in Users, i \in {0} \cup ImageIds :
           Arrive(p, overlap) /\ list_transformations(p, u, i)
    \/ \E p \in Procs, u \in Users, i \in ImageIds, ops \in RequestOps :
           Arrive(p, overlap) /\ transform_image(p, u, i, ops)
    \/ \E p \in Procs, u \in Users, i \in ImageIds :
           Arrive(p, overlap) /\ delete_image(p, u, i)
    \/ \E p \in Procs, u \in Users, t \in TransformIds :
           Arrive(p, overlap) /\ delete_transformation(p, u, t)
    \/ \E p \in Procs : Step /\ transform_durable_lookup(p)
    \/ \E p \in Procs : Step /\ transform_cache_lookup(p)
    \/ \E p \in Procs : Step /\ transform_download(p)
    \/ \E p \in Procs : Step /\ transform_process(p)
    \/ \E p \in Procs : Step /\ transform_upload(p)
    \/ \E p \in Procs : Step /\ transform_commit(p)
    \/ \E p \in Procs : Step /\ transform_respond(p)
    \/ \E p \in Procs : Step /\ background_cache_set(p)
    \/ \E p \in Procs : Step /\ delete_image_enumerate(p)
    \/ \E p \in Procs : Step /\ delete_image_original_blob(p)
    \/ \E p \in Procs : Step /\ delete_image_transformation_blob(p)
    \/ \E p \in Procs : Step /\ delete_image_commit(p)
    \/ \E p \in Procs : Step /\ delete_transformation_blob(p)
    \/ \E p \in Procs : Step /\ delete_transformation_commit(p)
    \/ \E key \in DOMAIN cache : cache_expire(key)

\* requests one after the other; only the background tasks overlap with them
Next == System(FALSE)

Spec == Init /\ [][Next]_vars

\* requests that overlap
NextConcurrent == System(TRUE)

SpecConcurrent == Init /\ [][NextConcurrent]_vars

(***************************************************************************)
(* The cache key as a function of the request: the key of two requests is  *)
(* derived and compared.                                                   *)
(***************************************************************************)
\* the orders in which a client may list the keys of an object
Orders(s) == {[n \in 1..Len(s) |-> s[f[n]]] : f \in Permutations(1..Len(s))}

\* {"type": "rotate", "params": {"angle": 90, "expand": true}} and
\* {"type": "filter", "params": {"filter_type": "blur"}}, in every key order
ProbeOps ==
    UNION {Orders(<<Atom("type", "rotate"), Obj("params", o)>>) :
              o \in Orders(<<KV("angle", "90"), KV("expand", "true")>>)}
        \cup Orders(<<Atom("type", "filter"), Obj("params", <<KV("filter_type", "blur")>>)>>)

ProbeLists == UNION {[1..n -> ProbeOps] : n \in 0..MaxOps}
ProbeRequests == [image_id : ImageIds, operations : ProbeLists]

InitKeys ==
    /\ images = Empty
    /\ transformations = Empty
    /\ blobs = Empty
    /\ nextKey = 1
    /\ cache = Empty
    /\ redis_enabled = TRUE
    /\ pc = [p \in Procs |-> "idle"]
    /\ req = [p \in Procs |-> NoReq]
    /\ loc = [p \in Procs |-> NoLoc]
    /\ trace = [p \in Procs |-> <<>>]
    /\ finished = NoFinished
    /\ last = NoLast
    /\ deleted = NoneDeleted
    /\ served = 0
    /\ probe \in {[NoProbe EXCEPT !.stage = "requests", !.a = a, !.b = b] :
                     a \in ProbeRequests, b \in ProbeRequests}

\* lines 204-206 of transform_image, for each of the two requests
derive_cache_key ==
    /\ probe.stage = "requests"
    /\ probe' = [probe EXCEPT !.stage = "keys",
                              !.key_a = CacheKey(probe.a.image_id, probe.a.operations),
                              !.key_b = CacheKey(probe.b.image_id, probe.b.operations)]
    /\ UNCHANGED <<db, store, cache, redis_enabled, pc, req, loc, trace, finished, last,
                   deleted, served>>

NextKeys == derive_cache_key

SpecKeys == InitKeys /\ [][NextKeys]_vars

(***************************************************************************)
(* The fast cache on its own: the four operations of RedisCache are called *)
(* on a cache that is enabled or disabled, with a backend that answers or  *)
(* raises.                                                                 *)
(***************************************************************************)
CacheKeys == {CacheKey(i, <<>>) : i \in ImageIds}
CacheValues == {Result(PublicUrl(t), t) : t \in TransformIds}
Caches == UNION {[K -> CacheValues] : K \in SUBSET CacheKeys}

InitCache ==
    /\ images = Empty
    /\ transformations = Empty
    /\ blobs = Empty
    /\ nextKey = 1
    /\ cache \in Caches
    /\ redis_enabled \in BOOLEAN
    /\ pc = [p \in Procs |-> "idle"]
    /\ req = [p \in Procs |-> NoReq]
    /\ loc = [p \in Procs |-> NoLoc]
    /\ trace = [p \in Procs |-> <<>>]
    /\ finished = NoFinished
    /\ last = NoLast
    /\ deleted = NoneDeleted
    /\ served = 0
    /\ probe = NoProbe

\* what a call of a cache operation was given, what it returned and the cache
\* it was called on
CacheCall(op, key, value, raises, result) ==
    [stage |-> "cache", op |-> op, key |-> key, value |-> value, raises |-> raises,
     result |-> result, before |-> cache]

CacheFrame ==
    UNCHANGED <<db, store, redis_enabled, pc, req, loc, trace, finished, last, deleted,
                served>>

cache_get(key, raises) ==
    /\ probe' = CacheCall("get", key, None, raises, CacheGet(key, raises))
    /\ UNCHANGED cache
    /\ CacheFrame

cache_set(key, value, raises) ==
    /\ probe' = CacheCall("set", key, value, raises, CacheSet(key, value, raises).result)
    /\ cache' = CacheSet(key, value, raises).cache
    /\ CacheFrame

cache_delete(key, raises) ==
    /\ probe' = CacheCall("delete", key, None, raises, CacheDelete(key, raises).result)
    /\ cache' = CacheDelete(key, raises).cache
    /\ CacheFrame

cache_exists(key, raises) ==
    /\ probe' = CacheCall("exists", key, None, raises, CacheExists(key, raises))
    /\ UNCHANGED cache
    /\ CacheFrame

NextCache ==
    \/ \E key \in CacheKeys, raises \in BOOLEAN : cache_get(key, raises)
    \/ \E key \in CacheKeys, value \in CacheValues, raises \in BOOLEAN :
           cache_set(key, value, raises)
    \/ \E key \in CacheKeys, raises \in BOOLEAN : cache_delete(key, raises)
    \/ \E key \in CacheKeys, raises \in BOOLEAN : cache_exists(key, raises)

SpecCache == InitCache /\ [][NextCache]_vars

(***************************************************************************)
(* The pipeline on its own: process_image is called, as transform_image    *)
(* calls it, on the bytes of an image and a list of entries, and the call  *)
(* and its outcome are recorded.                                           *)
(***************************************************************************)
Params(type, params) == <<Atom("type", type), Obj("params", params)>>
\* entries the loop is to skip
EmptyOp == <<>>
NoTypeOp == <<Obj("params", <<KV("angle", "90")>>)>>
NullTypeOp == <<Atom("type", ""), Obj("params", <<KV("angle", "90")>>)>>
MalformedOps == {EmptyOp, NotARecord, NoTypeOp, NullTypeOp}
\* entries of a supported type without the parameter that the operation needs
ResizeNoSize == Params("resize", <<KV("maintain_ratio", "false")>>)
CropNoHeight == Params("crop", <<KV("x", "0"), KV("width", "2")>>)
RotateNoAngle == Params("rotate", <<KV("expand", "true")>>)
FormatNoFormat == Params("format", <<KV("quality", "90")>>)
FilterNoFilter == Params("filter", <<>>)
\* {"type": "rotate"}: op.get("params", {}) is the empty dict
RotateNoParams == <<Atom("type", "rotate")>>
\* {"type": "rotate", "params": null}
RotateNullParams == <<Atom("type", "rotate"), Atom("params", "null")>>
MissingParameterOps ==
    {ResizeNoSize, CropNoHeight, RotateNoAngle, FormatNoFormat, FilterNoFilter,
     RotateNoParams, RotateNullParams}
\* entries whose parameters are present and unusable
CropOutside == Params("crop", <<KV("x", "3"), KV("width", "2"), KV("height", "2")>>)
FilterUnknown == Params("filter", <<KV("filter_type", "emboss")>>)
FormatUnknown == Params("format", <<KV("output_format", "bmp")>>)
UnusableParameterOps == {CropOutside, FilterUnknown, FormatUnknown}
\* entries that apply to an image of 4 x 2 pixels
RotateExpandOp == Params("rotate", <<KV("angle", "90"), KV("expand", "true")>>)
ResizeWidthOp == Params("resize", <<KV("width", "2")>>)
CropOp == Params("crop", <<KV("width", "2"), KV("height", "2")>>)
FormatOp == Params("format", <<KV("output_format", "png")>>)
FilterOp == Params("filter", <<KV("filter_type", "sepia")>>)
ApplicableOps == {RotateOp, RotateExpandOp, ResizeWidthOp, CropOp, FormatOp, FilterOp}

PipelineOps ==
    MalformedOps \cup MissingParameterOps \cup UnusableParameterOps
        \cup ApplicableOps \cup {InvalidOp}
PipelineLists == UNION {[1..n -> PipelineOps] : n \in 0..MaxOps}
PipelineInputs == {OriginalBytes, TruncatedBytes}

\* a call that is to be made
PipelineCall(image_data, operations, pil) ==
    [stage |-> "call", image_data |-> image_data, operations |-> operations, pil |-> pil]

InitPipeline ==
    /\ images = Empty
    /\ transformations = Empty
    /\ blobs = Empty
    /\ nextKey = 1
    /\ cache = Empty
    /\ redis_enabled = TRUE
    /\ pc = [p \in Procs |-> "idle"]
    /\ req = [p \in Procs |-> NoReq]
    /\ loc = [p \in Procs |-> NoLoc]
    /\ trace = [p \in Procs |-> <<>>]
    /\ finished = NoFinished
    /\ last = NoLast
    /\ deleted = NoneDeleted
    /\ served = 0
    /\ probe \in {PipelineCall(image_data, operations, pil) :
                      image_data \in PipelineInputs, operations \in PipelineLists,
                      pil \in PilErrors}

\* lines 267-283 of transform_image: the pipeline runs and an exception is
\* answered with its status; 200 stands for the request going on
run_pipeline ==
    /\ probe.stage = "call"
    /\ LET r == process_image(probe.image_data, probe.operations, probe.pil)
       IN  probe' = [stage |-> "pipeline", image_data |-> probe.image_data,
                     operations |-> probe.operations, pil |-> probe.pil, result |-> r,
                     status |-> IF r.ok THEN 200 ELSE PipelineStatus(r)]
    /\ UNCHANGED <<db, store, cache, redis_enabled, pc, req, loc, trace, finished, last,
                   deleted, served>>

NextPipeline == run_pipeline

SpecPipeline == InitPipeline /\ [][NextPipeline]_vars

(***************************************************************************)
(* crop and resize on their own: each is called once on an image of W x H  *)
(* pixels, and the call and its outcome are recorded.                      *)
(***************************************************************************)
Sides == 1..MaxSide
\* the x and y of a crop
Offsets == (0 - 1)..MaxSide
\* the width and height of a crop
Extents == (0 - 1)..(MaxSide + 1)
\* the width and height of a resize; 0 stands for None
Targets == 0..(MaxSide + 1)

GeometryCall(op, W, H, x, y, width, height, maintain_aspect, pil) ==
    [stage |-> "call", op |-> op, image_data |-> ImageBytes(TRUE, W, H), x |-> x, y |-> y,
     width |-> width, height |-> height, maintain_aspect |-> maintain_aspect,
     pil |-> pil]

CropCalls ==
    {GeometryCall("crop", W, H, x, y, width, height, TRUE, pil) :
         W \in Sides, H \in Sides, x \in Offsets, y \in Offsets, width \in Extents,
         height \in Extents, pil \in PilErrors}
ResizeCalls ==
    {GeometryCall("resize", W, H, 0, 0, width, height, maintain_aspect, pil) :
         W \in Sides, H \in Sides, width \in Targets, height \in Targets,
         maintain_aspect \in BOOLEAN, pil \in PilErrors}

InitGeometry ==
    /\ images = Empty
    /\ transformations = Empty
    /\ blobs = Empty
    /\ nextKey = 1
    /\ cache = Empty
    /\ redis_enabled = TRUE
    /\ pc = [p \in Procs |-> "idle"]
    /\ req = [p \in Procs |-> NoReq]
    /\ loc = [p \in Procs |-> NoLoc]
    /\ trace = [p \in Procs |-> <<>>]
    /\ finished = NoFinished
    /\ last = NoLast
    /\ deleted = NoneDeleted
    /\ served = 0
    /\ probe \in CropCalls \cup ResizeCalls

GeometryFrame ==
    UNCHANGED <<db, store, cache, redis_enabled, pc, req, loc, trace, finished, last,
                deleted, served>>

crop ==
    /\ probe.stage = "call" /\ probe.op = "crop"
    /\ probe' = [probe EXCEPT !.stage = "crop"]
                    @@ [result |-> Crop(probe.image_data, probe.x, probe.y, probe.width,
                                        probe.height, probe.pil)]
    /\ GeometryFrame

resize ==
    /\ probe.stage = "call" /\ probe.op = "resize"
    /\ probe' = [probe EXCEPT !.stage = "resize"]
                    @@ [result |-> Resize(probe.image_data, probe.width, probe.height,
                                          probe.maintain_aspect, probe.pil)]
    /\ GeometryFrame

NextGeometry ==
    \/ crop
    \/ resize

SpecGeometry == InitGeometry /\ [][NextGeometry]_vars

(***************************************************************************)
(* Uploads and transforms only: no record is deleted.  The operation lists *)
(* of the transform requests are pairwise different, but for the first two,*)
(* which are the same list with the keys of the object in another order.   *)
(***************************************************************************)
TransformOps == {<<RotateOp>>, <<RotateOpKeysSorted>>, <<RotateExpandOp>>}

NextTransforms ==
    \/ \E p \in Procs, u \in Users :
           Arrive(p, FALSE) /\ upload_image(p, u, "image")
    \/ \E p \in Procs, u \in Users, i \in ImageIds, ops \in TransformOps :
           Arrive(p, FALSE) /\ transform_image(p, u, i, ops)
    \/ \E p \in Procs : Step /\ transform_durable_lookup(p)
    \/ \E p \in Procs : Step /\ transform_cache_lookup(p)
    \/ \E p \in Procs : Step /\ transform_download(p)
    \/ \E p \in Procs : Step /\ transform_process(p)
    \/ \E p \in Procs : Step /\ transform_upload(p)
    \/ \E p \in Procs : Step /\ transform_commit(p)
    \/ \E p \in Procs : Step /\ transform_respond(p)
    \/ \E p \in Procs : Step /\ background_cache_set(p)
    \/ \E key \in DOMAIN cache : cache_expire(key)

SpecTransforms == Init /\ [][NextTransforms]_vars

(***************************************************************************)
(* The blob gateway on its own: upload_file and delete_file of R2Storage   *)
(* and of LocalStorage are called on a store, with a backend that answers  *)
(* or fails.  blobs maps the keys of the store to the bytes, nextKey is    *)
(* the next uuid4().                                                       *)
(***************************************************************************)
Backends == {"r2", "local"}
Folders == {"users/1/original", "users/1/transformed"}
ContentTypes == {"image/png", "application/pdf"}

\* LocalStorage._get_extension_from_content_type
Extension(content_type) == IF content_type = "image/png" THEN ".png" ELSE ".bin"

\* the key of an upload: f"{folder}/{file_id}" and f"{folder}/{filename}"
StorageKey(backend, folder, file_id, content_type) ==
    IF backend = "r2" THEN <<folder, "/", file_id>>
    ELSE <<folder, "/", file_id, Extension(content_type)>>

\* f"{self.public_url}/{key}" and f"{self.base_url}/{key}"
StorageUrl(backend, key) ==
    <<IF backend = "r2" THEN "https://public" ELSE "http://localhost:8000/local_storage",
      "/">> \o key

\* upload_file: the key and url returned and the store after the call, or the
\* exception of the backend
UploadFile(backend, folder, content_type, fails) ==
    LET key == StorageKey(backend, folder, nextKey, content_type)
    IN  IF fails
        THEN [raised |-> TRUE, key |-> <<>>, url |-> <<>>, blobs |-> blobs]
        ELSE [raised |-> FALSE, key |-> key, url |-> StorageUrl(backend, key),
              blobs |-> Put(blobs, key, OriginalBytes)]

\* delete_file: what the call returns and the store after it.  delete_object
\* of the object store answers without an error for a key that has no object;
\* LocalStorage tests file_path.exists()
StorageDeleteFile(backend, key, fails) ==
    IF fails THEN [result |-> FALSE, blobs |-> blobs]
    ELSE IF backend = "r2" THEN [result |-> TRUE, blobs |-> Drop(blobs, {key})]
    ELSE IF key \in DOMAIN blobs THEN [result |-> TRUE, blobs |-> Drop(blobs, {key})]
    ELSE [result |-> FALSE, blobs |-> blobs]

InitStorage ==
    /\ images = Empty
    /\ transformations = Empty
    /\ blobs = Empty
    /\ nextKey = 1
    /\ cache = Empty
    /\ redis_enabled = TRUE
    /\ pc = [p \in Procs |-> "idle"]
    /\ req = [p \in Procs |-> NoReq]
    /\ loc = [p \in Procs |-> NoLoc]
    /\ trace = [p \in Procs |-> <<>>]
    /\ finished = NoFinished
    /\ last = NoLast
    /\ deleted = NoneDeleted
    /\ served = 0
    /\ probe \in {[stage |-> "storage", backend |-> b, op |-> "none", key |-> <<>>,
                   folder |-> "", fails |-> FALSE, result |-> FALSE, url |-> <<>>,
                   before |-> Empty, returned |-> {}] : b \in Backends}

StorageFrame ==
    UNCHANGED <<db, cache, redis_enabled, pc, req, loc, trace, finished, last, deleted,
                served>>

\* the keys a client may ask to delete: the keys of the uploads so far and the
\* key of an upload that has not happened
KnownKeys ==
    probe.returned
        \cup {StorageKey(probe.backend, "users/1/original", nextKey, "image/png")}

storage_upload(folder, content_type, fails) ==
    /\ probe.stage = "storage"
    /\ nextKey <= MaxRequests
    /\ LET up == UploadFile(probe.backend, folder, content_type, fails)
       IN  /\ blobs' = up.blobs
           /\ nextKey' = IF fails THEN nextKey ELSE nextKey + 1
           /\ probe' = [probe EXCEPT !.op = "upload", !.key = up.key, !.folder = folder,
                                     !.fails = fails, !.result = ~up.raised,
                                     !.url = up.url, !.before = blobs,
                                     !.returned = IF fails THEN @ ELSE @ \cup {up.key}]
    /\ StorageFrame

storage_delete(key, fails) ==
    /\ probe.stage = "storage"
    /\ LET del == StorageDeleteFile(probe.backend, key, fails)
       IN  /\ blobs' = del.blobs
           /\ probe' = [probe EXCEPT !.op = "delete", !.key = key, !.folder = "",
                                     !.fails = fails, !.result = del.result,
                                     !.url = <<>>, !.before = blobs]
    /\ UNCHANGED nextKey
    /\ StorageFrame

NextStorage ==
    \/ \E folder \in Folders, content_type \in ContentTypes, fails \in BOOLEAN :
           storage_upload(folder, content_type, fails)
    \/ \E key \in KnownKeys, fails \in BOOLEAN : storage_delete(key, fails)

SpecStorage == InitStorage /\ [][NextStorage]_vars

(***************************************************************************)
(* The lifetime of the entries of the fast cache.  Here the cache is the   *)
(* store of the server: a key maps to the serialized value written by      *)
(* setex and the seconds the entry has left.  The cache is enabled and the *)
(* server answers.                                                         *)
(***************************************************************************)
\* settings.REDIS_CACHE_EXPIRY
REDIS_CACHE_EXPIRY == 86400

\* Python values: None, an int, a str, a list of such, a dict from str to such
PyValue(type, n, s, items) == [type |-> type, n |-> n, s |-> s, items |-> items]
PyNone == PyValue("none", 0, "", <<>>)
PyInt(n) == PyValue("int", n, "", <<>>)
PyStr(s) == PyValue("str", 0, s, <<>>)
PyList(items) == PyValue("list", 0, "", items)
\* items: the pairs <<key, value>> in insertion order
PyDict(items) == PyValue("dict", 0, "", items)

\* the tokens of a JSON text
Token(t, n, s) == [t |-> t, n |-> n, s |-> s]
Punct(c) == Token("punct", 0, c)

\* json.dumps of None, an int or a str
DumpsAtom(v) ==
    IF v.type = "none" THEN Token("null", 0, "")
    ELSE IF v.type = "int" THEN Token("num", v.n, "")
    ELSE Token("str", 0, v.s)

\* json.loads of null, a number or a string
LoadsAtom(token) ==
    IF token.t = "null" THEN PyNone
    ELSE IF token.t = "num" THEN PyInt(token.n)
    ELSE PyStr(token.s)

\* the items of a list or dict, separated by commas
RECURSIVE DumpsItems(_, _)
DumpsItems(items, isDict) ==
    IF items = <<>> THEN <<>>
    ELSE (IF isDict
          THEN <<Token("str", 0, Head(items)[1]), Punct(":"), DumpsAtom(Head(items)[2])>>
          ELSE <<DumpsAtom(Head(items))>>)
         \o (IF Tail(items) = <<>> THEN <<>> ELSE <<Punct(",")>>)
         \o DumpsItems(Tail(items), isDict)

\* json.dumps(value)
Dumps(value) ==
    IF value.type = "list" THEN <<Punct("[")>> \o DumpsItems(value.items, FALSE) \o <<Punct("]")>>
    ELSE IF value.type = "dict"
    THEN <<Punct("{")>> \o DumpsItems(value.items, TRUE) \o <<Punct("}")>>
    ELSE <<DumpsAtom(value)>>

\* json.loads(text)
Loads(text) ==
    IF text[1] = Punct("[")
    THEN PyList([n \in 1..((Len(text) - 1) \div 2) |-> LoadsAtom(text[2 * n])])
    ELSE IF text[1] = Punct("{")
    THEN PyDict([n \in 1..((Len(text) - 1) \div 4) |->
                    <<text[4 * n - 2].s, LoadsAtom(text[4 * n])>>])
    ELSE LoadsAtom(text[1])

\* a faulty variant: without an expiry the entry lives for a second
ExpiryOfASecond(expiry) == IF expiry = 0 THEN 1 ELSE expiry

\* expiry or self.default_expiry; 0 stands for None
Expiry(expiry) == IF expiry = 0 THEN REDIS_CACHE_EXPIRY ELSE expiry

\* redis_client.setex(key, expiry, serialized)
Setex(key, seconds, serialized) == Put(cache, key, [data |-> serialized, ttl |-> seconds])

\* RedisCache.set on the enabled cache: the store after the call
SetEntry(key, value, expiry) == Setex(key, Expiry(expiry), Dumps(value))

\* RedisCache.get on the enabled cache: a serialized value is never the empty
\* string, so `if value` is the test for a missing key
GetEntry(key) == IF key \in DOMAIN cache THEN [found |-> TRUE, value |-> Loads(cache[key].data)]
                 ELSE [found |-> FALSE, value |-> PyNone]

\* the store when the given seconds have passed
Elapsed(seconds) ==
    [k \in {j \in DOMAIN cache : cache[j].ttl > seconds} |->
        [cache[k] EXCEPT !.ttl = @ - seconds]]

LifetimeKeys == {"k1", "k2"}
LifetimeValues ==
    {PyDict(<<<<"url", PyStr("https://public/1")>>, <<"transformation_id", PyInt(1)>>>>),
     PyDict(<<>>), PyList(<<PyInt(1), PyStr("2"), PyNone>>), PyInt(0), PyStr("")}
\* the expiry arguments: none, and a second
Expiries == {0, 1}

\* no call yet; live is what a client expects of the keys: the value it has
\* set, the expiry it gave and the seconds the value has left
NoCall == [stage |-> "lifetime", op |-> "none", key |-> "", found |-> FALSE,
           value |-> PyNone, advances |-> 0, live |-> Empty]

InitLifetime ==
    /\ images = Empty
    /\ transformations = Empty
    /\ blobs = Empty
    /\ nextKey = 1
    /\ cache = Empty
    /\ redis_enabled = TRUE
    /\ pc = [p \in Procs |-> "idle"]
    /\ req = [p \in Procs |-> NoReq]
    /\ loc = [p \in Procs |-> NoLoc]
    /\ trace = [p \in Procs |-> <<>>]
    /\ finished = NoFinished
    /\ last = NoLast
    /\ deleted = NoneDeleted
    /\ served = 0
    /\ probe = NoCall

LifetimeFrame ==
    UNCHANGED <<db, store, redis_enabled, pc, req, loc, trace, finished, last, deleted,
                served>>

lifetime_set(key, value, expiry) ==
    /\ probe.stage = "lifetime"
    /\ cache' = SetEntry(key, value, expiry)
    /\ probe' = [probe EXCEPT !.op = "set", !.key = key, !.found = FALSE, !.value = PyNone,
                     !.live = Put(@, key,
                                  [value |-> value, expiry |-> expiry,
                                   left |-> IF expiry = 0 THEN 86400 ELSE expiry])]
    /\ LifetimeFrame

lifetime_get(key) ==
    /\ probe.stage = "lifetime"
    /\ probe' = [probe EXCEPT !.op = "get", !.key = key, !.found = GetEntry(key).found,
                              !.value = GetEntry(key).value]
    /\ UNCHANGED cache
    /\ LifetimeFrame

lifetime_delete(key) ==
    /\ probe.stage = "lifetime"
    /\ cache' = Drop(cache, {key})
    /\ probe' = [probe EXCEPT !.op = "delete", !.key = key, !.found = FALSE,
                              !.value = PyNone, !.live = Drop(@, {key})]
    /\ LifetimeFrame

lifetime_advance(seconds) ==
    /\ probe.stage = "lifetime"
    /\ probe.advances < MaxAdvances
    /\ cache' = Elapsed(seconds)
    /\ probe' = [probe EXCEPT !.op = "advance", !.key = "", !.found = FALSE,
                     !.value = PyNone, !.advances = @ + 1,
                     !.live = [k \in {j \in DOMAIN @ : @[j].left > seconds} |->
                                  [@[k] EXCEPT !.left = @ - seconds]]]
    /\ LifetimeFrame

NextLifetime ==
    \/ \E key \in LifetimeKeys, value \in LifetimeValues, expiry \in Expiries :
           lifetime_set(key, value, expiry)
    \/ \E key \in LifetimeKeys : lifetime_get(key)
    \/ \E key \in LifetimeKeys : lifetime_delete(key)
    \/ \E seconds \in {1, REDIS_CACHE_EXPIRY - 1} : lifetime_advance(seconds)

SpecLifetime == InitLifetime /\ [][NextLifetime]_vars

(***************************************************************************)
(* Properties of the transform result lookup.                              *)
(***************************************************************************)
Has(t, e) == \E n \in 1..Len(t) : t[n] = e
IsPrefix(s, t) == Len(s) <= Len(t) /\ \A n \in 1..Len(s) : s[n] = t[n]
EndsWith(t, e) == Len(t) > 0 /\ t[Len(t)] = e

\* the handlers under way and the one that has just ended
Handled ==
    {[req |-> req[p], trace |-> trace[p]] : p \in Procs}
        \cup {[req |-> finished.req, trace |-> finished.trace]}

\* C1: a transform request for an image and an operation list that an earlier
\* request has already been answered for, with nothing deleted in between, is
\* answered with the transformation_id of the record the earlier request got.
IdempotentLookup ==
    (finished.req.kind = "transform" /\ finished.status = 200 /\ finished.req.prior # 0)
        => finished.body.transformation_id = finished.req.prior

\* C2: after requests that were made one after the other, no two records have
\* the same image_id and the same serialized operation list.
AtMostOneRecord ==
    \A t1, t2 \in DOMAIN transformations :
        (/\ transformations[t1].image_id = transformations[t2].image_id
         /\ transformations[t1].parameters = transformations[t2].parameters)
            => t1 = t2

\* C3: a transform request that finds in the durable store a record an earlier
\* request created for the same image and the same operation list returns at
\* the durable lookup: it never goes on to read the cache, run the pipeline,
\* upload a blob or insert a record.
DurableHitReturns ==
    \A p \in Procs :
        (req[p].kind = "transform" /\ pc[p] = "cache_lookup")
            => ~\E t \in DOMAIN transformations :
                   /\ transformations[t].image_id = req[p].id
                   /\ transformations[t].operations = req[p].operations

\* what a transform request that misses both lookups does, in order
FullMissTrace ==
    <<"find_image", "durable_miss", "cache_miss", "download", "process", "upload",
      "commit", "respond", "cache_set">>

\* the states in which the lookups of a transform request are in their order
LookupsInOrder ==
    \A h \in Handled :
        h.req.kind = "transform" =>
            /\ Len(h.trace) >= 1 => h.trace[1] = "find_image"
            /\ Len(h.trace) >= 2 => h.trace[2] \in {"durable_hit", "durable_miss"}
            /\ \A n \in 1..Len(h.trace) :
                   /\ h.trace[n] \in {"cache_hit", "cache_miss"}
                          => n = 3 /\ h.trace[2] = "durable_miss"
                   /\ h.trace[n] \in {"download", "process", "upload", "commit"}
                          => n > 3 /\ h.trace[2] = "durable_miss" /\ h.trace[3] = "cache_miss"

\* the answer of a cache hit is the cached pair
CacheHitAnswer ==
    (finished.req.kind = "transform" /\ EndsWith(finished.trace, "cache_hit"))
        => /\ finished.status = 200
           /\ finished.trace = <<"find_image", "durable_miss", "cache_hit">>
           /\ redis_enabled
           /\ CacheKey(finished.req.id, finished.req.operations) \in DOMAIN cache
           /\ finished.body = cache[CacheKey(finished.req.id, finished.req.operations)]

\* the step of a lookup changes neither the object store nor the database
LookupFrame ==
    \A p \in Procs :
        (pc[p] \in {"durable_lookup", "cache_lookup"} /\ pc'[p] # pc[p])
            => UNCHANGED <<images, transformations, blobs, nextKey, cache>>

\* C4: a transform request consults the durable record first, the fast cache
\* only after the durable lookup missed, and the pipeline only after both
\* missed; a cache hit returns the cached {url, transformation_id} at once,
\* with no pipeline, no upload and no insert.
LookupOrder == []LookupsInOrder /\ []CacheHitAnswer /\ [][LookupFrame]_vars

\* a request answered from the fast cache after the durable lookup missed
LookupOrderWitness ==
    /\ finished.req.kind = "transform"
    /\ finished.trace = <<"find_image", "durable_miss", "cache_hit">>
    /\ finished.status = 200
    /\ finished.body.transformation_id \in DOMAIN transformations

\* the record, the blob and the pending cache write behind the answer of a
\* request that missed both lookups
FullMissAnswer ==
    (finished.req.kind = "transform" /\ EndsWith(finished.trace, "respond"))
        => LET r == finished.req
               b == finished.body
               key == CacheKey(r.id, r.operations)
           IN  /\ finished.status = 200
               /\ b.transformation_id \in DOMAIN transformations
               /\ LET row == transformations[b.transformation_id]
                  IN  /\ row.image_id = r.id
                      /\ row.parameters = SetParameters(r.operations)
                      /\ row.cached_url = b.url
                      /\ b.url = PublicUrl(row.cached_key)
                      /\ row.cached_key \in DOMAIN blobs
                      /\ \E pil \in PilErrors :
                             blobs[row.cached_key] =
                                 process_image(blobs[images[r.id].original_key],
                                               r.operations, pil).data
               /\ CacheGet(key, FALSE) # b
               /\ \E p \in Procs :
                      /\ pc[p] = "background" /\ req[p] = r
                      /\ loc[p].cache_key = key /\ loc[p].result = b

\* the cache entry the background task of such a request leaves
FullMissCacheWrite ==
    (finished.req.kind = "transform" /\ EndsWith(finished.trace, "cache_set"))
        => /\ finished.trace = FullMissTrace
           /\ redis_enabled
           /\ CacheGet(CacheKey(finished.req.id, finished.req.operations), FALSE)
                  = finished.body

\* C5: a transform request that misses both lookups downloads the original,
\* runs the pipeline, uploads the result under a fresh key, inserts and
\* commits a record and builds {url, transformation_id}, in that order; the
\* cache write of that result under the cache key runs after the response.
FullMissOrder ==
    /\ \A h \in Handled :
           (h.req.kind = "transform" /\ Has(h.trace, "cache_miss"))
               => \/ IsPrefix(h.trace, FullMissTrace)
                  \/ h.trace = [FullMissTrace EXCEPT ![Len(FullMissTrace)] = "cache_set_failed"]
    /\ FullMissAnswer
    /\ FullMissCacheWrite

\* the background task of a request that missed both lookups has written the cache
FullMissOrderWitness ==
    /\ finished.req.kind = "transform"
    /\ finished.trace = FullMissTrace
    /\ redis_enabled
    /\ cache[CacheKey(finished.req.id, finished.req.operations)] = finished.body
    /\ finished.body.transformation_id \in DOMAIN transformations

(***************************************************************************)
(* Requests that overlap.                                                  *)
(***************************************************************************)
\* C6: nothing keeps two overlapping transform requests for the same image and
\* operation list from both missing the lookups: the commit of each inserts a
\* record of its own, with its own id, next to a record with the same image_id
\* and parameters, and leaves the records that exist as they are.
CommitInsertsDuplicate ==
    [][\A p \in Procs :
          (pc[p] = "commit" /\ pc'[p] = "respond")
              => LET id == loc'[p].result.transformation_id
                 IN  /\ id \notin DOMAIN transformations
                     /\ DOMAIN transformations' = DOMAIN transformations \cup {id}
                     /\ transformations'[id].image_id = req[p].id
                     /\ transformations'[id].parameters = SetParameters(req[p].operations)
                     /\ \A t \in DOMAIN transformations :
                            transformations'[t] = transformations[t]]_vars

\* two overlapping requests for the same image and the same operation list, whose
\* durable lookup would have found the record of the other, have both missed
\* both lookups, run the pipeline, uploaded a blob and inserted a record
CommitInsertsDuplicateWitness ==
    \E p, q \in Procs :
        /\ p # q
        /\ req[p].kind = "transform" /\ req[q].kind = "transform"
        /\ req[p].id = req[q].id /\ req[p].operations = req[q].operations
        /\ SetParameters(req[p].operations) = OperationsJson(req[p].operations)
        /\ pc[p] \in {"respond", "background"} /\ pc[q] \in {"respond", "background"}
        /\ Has(trace[p], "cache_miss") /\ Has(trace[q], "cache_miss")
        /\ loc[p].key # loc[q].key /\ {loc[p].key, loc[q].key} \subseteq DOMAIN blobs
        /\ LET tp == loc[p].result.transformation_id
               tq == loc[q].result.transformation_id
           IN  /\ tp # tq /\ {tp, tq} \subseteq DOMAIN transformations
               /\ transformations[tp].image_id = transformations[tq].image_id
               /\ transformations[tp].parameters = transformations[tq].parameters

(***************************************************************************)
(* The cache key.                                                          *)
(***************************************************************************)
\* Python's == on dicts: the same keys with the same values, in any order
DictEq(d1, d2) ==
    LET Norm(e) == [k |-> e.k, isObj |-> e.isObj, atom |-> e.atom,
                    obj |-> {e.obj[n] : n \in 1..Len(e.obj)}]
    IN  {Norm(d1[n]) : n \in 1..Len(d1)} = {Norm(d2[n]) : n \in 1..Len(d2)}

\* Python's == on lists of dicts
ListEq(l1, l2) == Len(l1) = Len(l2) /\ \A n \in 1..Len(l1) : DictEq(l1[n], l2[n])

\* the same operations, in some sequence order
SameOperations(l1, l2) ==
    /\ Len(l1) = Len(l2)
    /\ \E f \in Permutations(1..Len(l1)) : \A n \in 1..Len(l1) : DictEq(l1[n], l2[f[n]])

\* C7: the cache key is a function of the image id and the operation list with
\* the keys of every object sorted: lists that differ only in the order of the
\* keys get the same key, the same operations in another sequence order get
\* another key, and so does the same list for another image.
CacheKeyDeterminism ==
    probe.stage = "keys" =>
        LET a == probe.a
            b == probe.b
        IN  /\ (a.image_id = b.image_id /\ ListEq(a.operations, b.operations))
                   => probe.key_a = probe.key_b
            /\ (/\ a.image_id = b.image_id
                /\ SameOperations(a.operations, b.operations)
                /\ ~ListEq(a.operations, b.operations))
                   => probe.key_a # probe.key_b
            /\ a.image_id # b.image_id => probe.key_a # probe.key_b

\* the keys of two lists of two operations that differ in the order of the keys
\* of an operation and of its params
CacheKeyDeterminismWitness ==
    /\ probe.stage = "keys"
    /\ probe.a.image_id = probe.b.image_id
    /\ Len(probe.a.operations) = 2
    /\ ListEq(probe.a.operations, probe.b.operations)
    /\ \E n \in 1..2 :
           /\ probe.a.operations[n][1].k # probe.b.operations[n][1].k
           /\ GetParams(probe.a.operations[n]) # GetParams(probe.b.operations[n])
    /\ probe.key_a = probe.key_b

(***************************************************************************)
(* Deletion.                                                               *)
(***************************************************************************)
\* the ids of the transformations a delete_image request has enumerated
Enumerated(l) == {l.transformations[n].id : n \in 1..Len(l.transformations)}

\* the number of the events of a trace that are in a set
RECURSIVE Count(_, _)
Count(t, E) ==
    IF t = <<>> THEN 0 ELSE (IF Head(t) \in E THEN 1 ELSE 0) + Count(Tail(t), E)

OriginalBlobEvents == {"original_blob_deleted", "original_blob_failed"}
TransformationBlobEvents == {"transformation_blob_deleted", "transformation_blob_failed"}

\* C8: when delete_image has succeeded on an image with N transformations,
\* none of the N transformation records and no image record of that id remain;
\* every later get, transform or delete request for that image, and every
\* later delete request for one of its transformations, is answered 404.
DeleteCascadeResult ==
    /\ (finished.req.kind = "delete_image" /\ finished.status = 204)
           => /\ finished.req.id \notin DOMAIN images
              /\ Enumerated(finished.loc) \cap DOMAIN transformations = {}
              /\ \A t \in DOMAIN transformations :
                     transformations[t].image_id # finished.req.id
    /\ finished.req.gone => finished.status = 404
    /\ \A p \in Procs : ~req[p].gone

\* a delete request for a transformation of a deleted image is answered 404
DeleteCascadeResultWitness ==
    /\ finished.req.kind = "delete_transformation"
    /\ finished.req.gone
    /\ finished.status = 404
    /\ finished.req.id \in deleted.transformations
    /\ deleted.images # {}

\* C9: delete_image enumerates the transformations, attempts the deletion of
\* the blob of each, deletes all transformation records, and only then deletes
\* the image record and the original blob: when the deletion of the original
\* blob has been attempted, no transformation blob is still to be attempted
\* and no enumerated transformation record is left.
DeleteCascadeOrder ==
    \A p \in Procs :
        (req[p].kind = "delete_image" /\ Count(trace[p], OriginalBlobEvents) > 0)
            => /\ loc[p].todo = <<>>
               /\ Enumerated(loc[p]) \cap DOMAIN transformations = {}

\* a step of the cleanup of a delete request
CleanupStep(p) ==
    \/ delete_image_enumerate(p)
    \/ delete_image_original_blob(p)
    \/ delete_image_transformation_blob(p)
    \/ delete_image_commit(p)
    \/ delete_transformation_blob(p)
    \/ delete_transformation_commit(p)

\* C10: in delete_image and delete_transformation a blob deletion that fails
\* never blocks the rest of the cleanup: the deletion of every transformation
\* blob is attempted, the targeted transformation records and the image record
\* are deleted, and the request completes with 204.
BestEffortCleanup ==
    /\ (finished.req.kind = "delete_image" /\ finished.status # 404)
           => /\ finished.status = 204
              /\ EndsWith(finished.trace, "records_deleted")
              /\ Count(finished.trace, OriginalBlobEvents) = 1
              /\ Count(finished.trace, TransformationBlobEvents)
                     = Len(finished.loc.transformations)
              /\ Enumerated(finished.loc) \cap DOMAIN transformations = {}
              /\ finished.req.id \notin DOMAIN images
    /\ (finished.req.kind = "delete_transformation" /\ finished.status # 404)
           => /\ finished.status = 204
              /\ EndsWith(finished.trace, "records_deleted")
              /\ Count(finished.trace, TransformationBlobEvents) = 1
              /\ finished.req.id \notin DOMAIN transformations
    /\ \A p \in Procs :
           req[p].kind \in {"delete_image", "delete_transformation"}
               => ENABLED CleanupStep(p)

\* a delete_image whose deletions of the original blob and of the first of two
\* transformation blobs failed
BestEffortCleanupWitness ==
    /\ finished.req.kind = "delete_image"
    /\ finished.status = 204
    /\ finished.trace = <<"find_image", "enumerate", "original_blob_failed",
                          "transformation_blob_failed", "transformation_blob_deleted",
                          "records_deleted">>
    /\ finished.loc.original_key \in DOMAIN blobs
    /\ finished.loc.transformations[1].cached_key \in DOMAIN blobs
    /\ finished.loc.transformations[2].cached_key \notin DOMAIN blobs

(***************************************************************************)
(* The fast cache.                                                         *)
(***************************************************************************)
\* C11: a cache operation called while the cache is disabled, or whose backend
\* client raises, does not raise and degrades to a miss or a no-op: get
\* returns None, set, delete and exists return False, and the entries of the
\* cache are what they were.
CacheFailuresAbsorbed ==
    (probe.stage = "cache" /\ (~redis_enabled \/ probe.raises))
        => /\ cache = probe.before
           /\ probe.op = "get" => probe.result = None
           /\ probe.op \in {"set", "delete", "exists"} => probe.result = FALSE

\* a set whose backend client raised, for a key that has no entry
CacheFailuresAbsorbedWitness ==
    /\ probe.stage = "cache"
    /\ probe.op = "set"
    /\ redis_enabled /\ probe.raises
    /\ probe.result = FALSE
    /\ probe.key \notin DOMAIN cache

\* the answer of a request that has missed the durable lookup when cache.get
\* returns None, as it does when the cache is disabled or failing, and the
\* object store answers
AnswerWithoutCache == Result(PublicUrl(nextKey), NewId(transformations))

\* C12: the response of a transform request is the same whether the fast cache
\* is enabled, disabled or failing on every call: a request that the enabled
\* cache answers gets the url and transformation_id it gets without the cache.
CacheNeverChangesResponse ==
    (finished.req.kind = "transform" /\ EndsWith(finished.trace, "cache_hit"))
        => finished.body = AnswerWithoutCache

(***************************************************************************)
(* The pipeline.                                                           *)
(***************************************************************************)
SupportedTypes == {"resize", "crop", "rotate", "format", "filter"}
\* an entry that carries a type tag that is no supported operation
Unsupported(op) == op \notin MalformedOps /\ GetType(op) \notin SupportedTypes
\* the entries before the first unsupported one
BeforeUnsupported(operations) ==
    SubSeq(operations, 1,
           (CHOOSE n \in 1..Len(operations) :
                /\ Unsupported(operations[n])
                /\ \A m \in 1..(n - 1) : ~Unsupported(operations[m])) - 1)

\* C13: a list with an entry of an unsupported type yields no bytes, and when
\* the entries before that entry applied successfully, process_image raises
\* ValueError and the endpoint answers with the client error 400.
UnsupportedAborts ==
    (/\ probe.stage = "pipeline"
     /\ \E n \in 1..Len(probe.operations) : Unsupported(probe.operations[n]))
        => /\ ~probe.result.ok
           /\ probe.result.data = <<>>
           /\ process_image(probe.image_data, BeforeUnsupported(probe.operations),
                            probe.pil).ok
                  => (probe.result = ValueError /\ probe.status = 400)

\* an unsupported entry after an entry that has rotated the image
UnsupportedAbortsWitness ==
    /\ probe.stage = "pipeline"
    /\ probe.image_data = OriginalBytes
    /\ probe.operations = <<RotateOp, InvalidOp>>
    /\ probe.result = ValueError
    /\ probe.status = 400

\* the list without its malformed entries
WithoutMalformed(operations) == SelectSeq(operations, LAMBDA op : op \notin MalformedOps)

\* C14: an entry that is empty, is not a record or carries no type tag is
\* skipped without an error: the outcome of the pipeline is the outcome for
\* the list with these entries removed.
MalformedSkipped ==
    probe.stage = "pipeline"
        => probe.result = process_image(probe.image_data,
                                        WithoutMalformed(probe.operations), probe.pil)

\* an entry that is not a record before an entry that rotates the image
MalformedSkippedWitness ==
    /\ probe.stage = "pipeline"
    /\ probe.operations = <<NotARecord, RotateExpandOp>>
    /\ probe.result.ok
    /\ probe.result.data.edits = <<"rotate">>

\* C15: an entry of a supported type that lacks the parameter it needs is
\* skipped and the bytes are unchanged; an entry whose parameters are present
\* and unusable aborts the pipeline with an error.
MissingParametersSkipped ==
    probe.stage = "pipeline" =>
        /\ (\A n \in 1..Len(probe.operations) : probe.operations[n] \in MissingParameterOps)
               => probe.result = Bytes(probe.image_data)
        /\ (/\ probe.image_data.decodable
            /\ Len(probe.operations) = 1
            /\ probe.operations[1] \in UnusableParameterOps) => ~probe.result.ok

\* the first n entries applied in list order: f_n(... f_2(f_1(I)) ...)
RECURSIVE Fold(_, _, _, _)
Fold(image_data, operations, n, pil) ==
    IF n = 0 THEN Bytes(image_data)
    ELSE LET r == Fold(image_data, operations, n - 1, pil)
         IN  IF r.ok THEN ApplyOperation(r.data, operations[n], pil) ELSE r

\* C16: the outcome of process_image is the left fold of the operations over
\* the input bytes in list order.
PipelineOrder ==
    probe.stage = "pipeline"
        => probe.result = Fold(probe.image_data, probe.operations,
                               Len(probe.operations), probe.pil)

\* a crop after a resize to the width 2: the crop is outside the resized image,
\* and inside the original
PipelineOrderWitness ==
    /\ probe.stage = "pipeline"
    /\ probe.image_data = OriginalBytes
    /\ probe.operations = <<ResizeWidthOp, CropOp>>
    /\ probe.result = ValueError
    /\ process_image(OriginalBytes, <<CropOp, ResizeWidthOp>>, probe.pil).ok

\* C17: for the empty list process_image returns exactly its input, whether
\* or not the input can be decoded as an image.
EmptyPipelineIdentity ==
    (probe.stage = "pipeline" /\ probe.operations = <<>>)
        => probe.result = Bytes(probe.image_data)

\* the empty list on bytes that cannot be decoded
EmptyPipelineIdentityWitness ==
    /\ probe.stage = "pipeline"
    /\ probe.operations = <<>>
    /\ ~probe.image_data.decodable
    /\ probe.result.ok
    /\ probe.result.data = probe.image_data

\* C18: bytes that cannot be decoded as an image are a client error: the upload
\* of a file that is no image is answered 400, and a transform whose pipeline
\* fails on stored bytes that cannot be decoded is answered with a 4xx status,
\* never a 5xx one.
DecodeFailuresAreClientErrors ==
    /\ (finished.req.kind = "upload" /\ EndsWith(finished.trace, "not_an_image"))
           => finished.status = 400
    /\ (/\ finished.req.kind = "transform"
        /\ EndsWith(finished.trace, "process")
        /\ ~finished.loc.image_data.decodable)
           => finished.status \in 400..499

(***************************************************************************)
(* crop and resize.                                                        *)
(***************************************************************************)
\* C19: crop raises ValueError whenever x < 0, y < 0, width <= 0, height <= 0,
\* x + width > W or y + height > H, and otherwise returns an image of exactly
\* width x height pixels.
CropBounds ==
    probe.stage = "crop" =>
        IF \/ probe.x < 0 \/ probe.y < 0 \/ probe.width <= 0 \/ probe.height <= 0
           \/ probe.x + probe.width > probe.image_data.width
           \/ probe.y + probe.height > probe.image_data.height
        THEN probe.result = ValueError
        ELSE /\ probe.result.ok
             /\ probe.result.data.width = probe.width
             /\ probe.result.data.height = probe.height

\* C20: resize to a width w keeps the aspect ratio (w x H*w/W), to a height h
\* likewise (W*h/H x h), to both without the aspect ratio gives exactly w x h,
\* to both with the aspect ratio gives a size within w x h that is not larger
\* than the source; for every positive w or h and every source the call
\* succeeds and the output has positive dimensions.
ResizeDimensions ==
    (probe.stage = "resize" /\ (probe.width > 0 \/ probe.height > 0)) =>
        LET W == probe.image_data.width
            H == probe.image_data.height
            w == probe.width
            h == probe.height
            out == probe.result.data
        IN  /\ probe.result.ok
            /\ out.width > 0 /\ out.height > 0
            /\ (probe.maintain_aspect /\ h = 0)
                   => (out.width = w /\ out.height = (H * w) \div W)
            /\ (probe.maintain_aspect /\ w = 0)
                   => (out.width = (W * h) \div H /\ out.height = h)
            /\ (~probe.maintain_aspect /\ w > 0 /\ h > 0)
                   => (out.width = w /\ out.height = h)
            /\ (probe.maintain_aspect /\ w > 0 /\ h > 0)
                   => (out.width <= w /\ out.height <= h /\ out.width <= W /\ out.height <= H)

(***************************************************************************)
(* Ownership.                                                              *)
(***************************************************************************)
\* the request names an image, or a transformation of an image, of another user
Foreign(r) ==
    \/ /\ r.kind \in {"get", "transform", "delete_image"}
       /\ r.id \in DOMAIN images
       /\ images[r.id].user_id # r.user
    \/ /\ r.kind = "delete_transformation"
       /\ r.id \in DOMAIN transformations
       /\ transformations[r.id].image_id \in DOMAIN images
       /\ images[transformations[r.id].image_id].user_id # r.user

\* a request that names a record of another user is not taken up by a handler;
\* it is answered 404 at once and nothing is changed
ForeignStep ==
    served' = served + 1 =>
        /\ \A p \in Procs : req'[p] # req[p] => ~Foreign(req'[p])
        /\ Foreign(finished'.req) =>
               /\ finished'.status = 404
               /\ UNCHANGED <<images, transformations, blobs, cache>>

\* a list response carries only records of the user's images
ListsOwn ==
    /\ finished.req.kind = "list_images" =>
           \A n \in 1..Len(finished.body.items) :
               FindImage(finished.body.items[n], finished.req.user)
    /\ finished.req.kind = "list_transformations" =>
           \A n \in 1..Len(finished.body.items) :
               /\ finished.body.items[n] \in DOMAIN transformations
               /\ FindImage(transformations[finished.body.items[n]].image_id,
                            finished.req.user)

\* C21: a request of a user that names an image or a transformation of another
\* user is answered 404 and changes no record, blob or cache entry, and
\* list_images and list_transformations return only items of the user's images.
OwnershipIsolation == []ListsOwn /\ [][ForeignStep]_vars

\* a user has asked to delete the transformation of another user's image, which
\* is still there
OwnershipIsolationWitness ==
    /\ finished.req.kind = "delete_transformation"
    /\ finished.status = 404
    /\ finished.req.id \in DOMAIN transformations
    /\ transformations[finished.req.id].image_id \in DOMAIN images
    /\ images[transformations[finished.req.id].image_id].user_id # finished.req.user
    /\ transformations[finished.req.id].cached_key \in DOMAIN blobs

(***************************************************************************)
(* The records.                                                            *)
(***************************************************************************)
\* the records that are there before and after a step are the same
RecordsKept ==
    /\ \A i \in DOMAIN images \cap DOMAIN images' : images'[i] = images[i]
    /\ \A t \in DOMAIN transformations \cap DOMAIN transformations' :
           transformations'[t] = transformations[t]

\* C22: a Transformation record keeps its image_id, parameters, cached_key and
\* cached_url from its creation to its deletion, and an Image record keeps all
\* its fields; no request changes a record that it does not create or delete.
RecordsImmutable == [][RecordsKept]_vars

\* the response of a transform names a record of the request's image and of
\* the request's operation list
AnswerOfRequest ==
    (finished.req.kind = "transform" /\ finished.status = 200) =>
        LET t == finished.body.transformation_id
        IN  /\ t \in DOMAIN transformations
            /\ transformations[t].image_id = finished.req.id
            /\ ListEq(transformations[t].operations, finished.req.operations)
            /\ transformations[t].cached_url = finished.body.url

\* a step neither removes nor changes a record
RecordsStay ==
    /\ DOMAIN transformations \subseteq DOMAIN transformations'
    /\ RecordsKept

\* C23: transform requests on an image with different operation lists are
\* each answered with a record of their own list, so with pairwise different
\* transformation_ids, and no request overwrites a record.
DistinctRecords == []AnswerOfRequest /\ [][RecordsStay]_vars

\* the second of two requests on an image with different lists has been
\* answered with the second record
DistinctRecordsWitness ==
    /\ finished.req.kind = "transform"
    /\ finished.status = 200
    /\ finished.body.transformation_id = 2
    /\ DOMAIN transformations = {1, 2}
    /\ transformations[1].image_id = transformations[2].image_id
    /\ ~ListEq(transformations[1].operations, transformations[2].operations)

(***************************************************************************)
(* The blob gateway.                                                       *)
(***************************************************************************)
\* C24: for both backends, delete_file returns False when the key has no blob
\* or the backend fails, and True only when a blob that was there has been
\* removed; upload_file returns a key that no earlier upload returned, under
\* the folder, with a url that ends in the key, or raises and returns no key.
BlobGatewayOutcomes ==
    probe.stage = "storage" =>
        /\ probe.op = "delete" =>
               /\ (probe.key \notin DOMAIN probe.before \/ probe.fails)
                      => probe.result = FALSE
               /\ probe.result = TRUE
                      => (probe.key \in DOMAIN probe.before /\ probe.key \notin DOMAIN blobs)
        /\ (probe.op = "upload" /\ probe.result) =>
               /\ probe.key \notin DOMAIN probe.before
               /\ probe.key \in DOMAIN blobs
               /\ probe.key[1] = probe.folder
               /\ SubSeq(probe.url, Len(probe.url) - Len(probe.key) + 1, Len(probe.url))
                      = probe.key
        /\ (probe.op = "upload" /\ ~probe.result) =>
               (probe.key = <<>> /\ blobs = probe.before)

(***************************************************************************)
(* The lifetime of a cache entry.                                          *)
(***************************************************************************)
\* C25: on the enabled and healthy cache, get of a key returns the value last
\* set for it, from the set until the expiry given to the set (86400 seconds
\* when none was given) has passed or the key is deleted, and None after
\* that and for a key that was never set.
EntryLifetime ==
    (probe.stage = "lifetime" /\ probe.op = "get") =>
        IF probe.key \in DOMAIN probe.live
        THEN probe.found /\ probe.value = probe.live[probe.key].value
        ELSE ~probe.found /\ probe.value = PyNone

\* a get of a key set without an expiry, when all but a second of a day have
\* passed since
EntryLifetimeWitness ==
    /\ probe.stage = "lifetime"
    /\ probe.op = "get"
    /\ probe.found
    /\ probe.value.type = "dict"
    /\ probe.value.items # <<>>
    /\ probe.key \in DOMAIN cache
    /\ cache[probe.key].ttl = 1
    /\ probe.live[probe.key].expiry = 0
    /\ probe.live[probe.key].left = 1

(***************************************************************************)
(* Answers, records and blobs.                                             *)
(***************************************************************************)
\* C26: every 200 response of a transform of image I carries the id of a
\* Transformation record that exists when the response is given, whose
\* image_id is I and whose cached_url is the url of the response; a record
\* that was deleted is not answered from the fast cache.
NoStaleAnswers ==
    (finished.req.kind = "transform" /\ finished.status = 200) =>
        /\ finished.body.transformation_id \in DOMAIN transformations
        /\ transformations[finished.body.transformation_id].image_id = finished.req.id
        /\ transformations[finished.body.transformation_id].cached_url = finished.body.url

\* C27: in every state, also while a transform and a delete_image of the same
\* image overlap, every Transformation record references an Image record
\* that exists.
ReferentialIntegrity ==
    \A t \in DOMAIN transformations : transformations[t].image_id \in DOMAIN images

\* no handler is between its request and its response
AllQuiet == \A p \in Procs : pc[p] \in {"idle", "background"}

\* the key of the blob a url names: PublicUrl(key)
KeyOfUrl(url) == url[2]

\* C28: the url of every 200 response of a transform names a blob that is in
\* the store when the response is given, also when a delete request has
\* removed the blob and not yet the record, and between the requests every
\* Image and Transformation record names a blob that is in the store.
NoDanglingBlobs ==
    /\ (finished.req.kind = "transform" /\ finished.status = 200)
           => KeyOfUrl(finished.body.url) \in DOMAIN blobs
    /\ AllQuiet =>
           /\ \A i \in DOMAIN images : images[i].original_key \in DOMAIN blobs
           /\ \A t \in DOMAIN transformations :
                  transformations[t].cached_key \in DOMAIN blobs

\* C29: a transform request that ends in an error response has created no
\* record and left no blob that it uploaded in the store.
FailedTransformLeavesNoTrace ==
    (finished.req.kind = "transform" /\ finished.status \in {400, 404, 500}) =>
        (finished.loc.key # 0 =>
            /\ finished.loc.key \notin DOMAIN blobs
            /\ \A t \in DOMAIN transformations :
                   transformations[t].cached_key # finished.loc.key)

\* C30: when delete_image has answered and every blob deletion it issued has
\* succeeded, the store holds neither the original of the image nor a blob
\* that a transform request of the image, under way when the delete started,
\* has uploaded.
NoOrphanBlobs ==
    (/\ finished.req.kind = "delete_image"
     /\ finished.status = 204
     /\ ~Has(finished.trace, "original_blob_failed")
     /\ ~Has(finished.trace, "transformation_blob_failed")) =>
        /\ finished.loc.original_key \notin DOMAIN blobs
        /\ \A p \in Procs :
               (/\ req[p].kind = "transform"
                /\ req[p].id = finished.req.id
                /\ pc[p] \in {"commit", "respond"})
                   => loc[p].key \notin DOMAIN blobs

====
